---- MODULE Spec2Model ----
(***************************************************************************)
(* Daily Assistant: the Activity Aggregation & AI Gateway subsystem and    *)
(* the React front end (src/src/App.tsx) that drives it.                   *)
(*                                                                         *)
(* The Rust back end (scan_git_repos, call_ai) is not part of the source   *)
(* tree at hand; its operators are modelled from spec.md sections 4.1-4.6  *)
(* and are marked as such.  Everything named after App.tsx is translated   *)
(* from that file; the PATH setup script is src/unnamed/part_000.          *)
(***************************************************************************)
EXTENDS Integers, Sequences, FiniteSets, TLC

(***************************************************************************)
(* Bounds of the model.                                                    *)
(***************************************************************************)
MaxHash == 2      \* commit hashes are 1..MaxHash; integer order = lexical order
MaxTime == 2      \* commit timestamps are 1..MaxTime
MaxPaths == 2     \* configured repository paths per scan
MaxScanCalls == 1 \* scan_git_repos invocations in flight at once
MaxSaveCalls == 1 \* save_config invocations in flight at once
MaxLogCalls == 2  \* log store invocations in flight at once
MaxLogOps == 1    \* entries added to the log store in one run
MaxRuns == 2      \* runs of setup-env.ps1

Hashes == 1..MaxHash
Times == 1..MaxTime

(***************************************************************************)
(* The file system: two repositories, A reachable under two path           *)
(* spellings, and one path that is no repository.                         *)
(***************************************************************************)
RepoIds == {"A", "B"}
Paths == {"a1", "a2", "b", "bad"}

\* 4.1 Repository Walker: open a path; "none" stands for RepositoryNotFound.
OpenRepo(p) ==
    CASE p = "a1" -> "A"
      [] p = "a2" -> "A"
      [] p = "b" -> "B"
      [] OTHER -> "none"

\* Repository Reference: the derived display name (last path segment).
DisplayName(p) ==
    CASE p = "a1" -> "A"
      [] p = "a2" -> "A-link"
      [] p = "b" -> "B"
      [] OTHER -> "?"

NoDiff == <<>>                       \* an unset optional diff field
SomeDiff(t) == <<t>>                 \* a present diff field

VARIABLES
    repos,        \* repository identity -> set of [hash, time] in its history
    window,       \* the ActivityWindow [start, end) of the scan
    aggPaths,     \* aggregator: the configured repository references
    aggDeep,      \* aggregator: the deep-analysis flag
    taskResult,   \* aggregator: per-repository task results collected so far
    aggPc,        \* aggregator: "collect" | "done"
    aggCommits,   \* aggregator: the merged sequence
    aggWarnings,  \* aggregator: warnings keyed by path
    \* ---- App.tsx component state (useState) ----
    activeTab,    \* 'log' | 'review' | 'settings'
    logs,         \* LogItem[]
    gitLogs,      \* GitCommit[]
    config,       \* AppConfig
    reviewResult, \* string
    reviewMode,   \* 'analysis' | 'export'
    isAiLoading,  \* boolean
    newLog,       \* string: the note input
    newGitPath,   \* string: the repository path input
    lastAlert,    \* the text of the last alert() shown, "" when none yet
    \* ---- collaborators and IPC ----
    storedConfig, \* the configuration store (config.json)
    logStore,     \* the log store: today's entries
    pendingInit,  \* the invocations of the mount effect not yet answered
    scanCalls,    \* scan_git_repos invocations in flight
    aiCalls,      \* call_ai invocations in flight
    saveCalls,    \* save_config invocations in flight
    logCalls,     \* save_log / delete_log / get_today_logs invocations in flight
    logOps,       \* the number of entries the log store has been asked to add
    syncedConfig, \* history: the configuration as the page last read it from
                  \* or wrote it to the store
    \* ---- setup-env.ps1 ----
    installDir,   \* $PSScriptRoot: the directory the script is installed in
    userPath,     \* the Path environment variable of the user
    pathAtStart,  \* history: the user Path before the first run
    runs          \* the number of runs of the script so far

aggVars == <<repos, window, aggPaths, aggDeep, taskResult, aggPc,
             aggCommits, aggWarnings>>
settingsVars == <<newGitPath, saveCalls, syncedConfig>>
logVars == <<newLog, logCalls, logOps>>
envVars == <<installDir, userPath, pathAtStart, runs>>
guiVarsButEnv == <<activeTab, logs, gitLogs, config, reviewResult, reviewMode,
                   isAiLoading, lastAlert, storedConfig, logStore, pendingInit,
                   scanCalls, aiCalls, settingsVars, logVars>>
guiVars == <<guiVarsButEnv, envVars>>
vars == <<aggVars, guiVars>>

(***************************************************************************)
(* Sequences helpers.                                                      *)
(***************************************************************************)
RECURSIVE Flatten(_)
Flatten(ss) == IF ss = <<>> THEN <<>> ELSE Head(ss) \o Flatten(Tail(ss))

\* sequences without repetition over S, of length 1..n
SeqsUpTo(S, n) ==
    {s \in UNION {[1..k -> S] : k \in 1..n} :
        \A i, j \in DOMAIN s : i # j => s[i] # s[j]}

(***************************************************************************)
(* 4.2 Commit Extractor, 4.3 Diff Summarizer, 4.4 Activity Aggregator.     *)
(***************************************************************************)
\* mutant: oldest first
BeforeAscending(a, b) == a.time < b.time \/ (a.time = b.time /\ a.hash < b.hash)

\* sort key of step 4: timestamp descending, tie-broken by hash
Before(a, b) == a.time > b.time \/ (a.time = b.time /\ a.hash < b.hash)

RECURSIVE Insert(_, _)
\* stable insertion: c goes after every element that is not after it
Insert(c, s) ==
    IF s = <<>> THEN <<c>>
    ELSE IF Before(c, Head(s)) THEN <<c>> \o s
    ELSE <<Head(s)>> \o Insert(c, Tail(s))

RECURSIVE SortCommits(_)
SortCommits(s) ==
    IF s = <<>> THEN <<>>
    ELSE Insert(s[Len(s)], SortCommits(SubSeq(s, 1, Len(s) - 1)))

\* mutant: duplicates recognised by display name instead of identity
SameKeyByName(a, b) == a.repo_name = b.repo_name /\ a.hash = b.hash

SameKey(a, b) == a.repo = b.repo /\ a.hash = b.hash

RECURSIVE Dedup(_)
\* step 5: keep the first occurrence of every (repository identity, hash)
Dedup(s) ==
    IF s = <<>> THEN <<>>
    ELSE LET init == Dedup(SubSeq(s, 1, Len(s) - 1))
             c == s[Len(s)]
         IN  IF \E i \in DOMAIN init : SameKey(init[i], c) THEN init
             ELSE Append(init, c)

\* mutant: a closed interval
InWindowClosed(t, w) == w.start <= t /\ t <= w.end

InWindow(t, w) == w.start <= t /\ t < w.end

Message(h) == "commit message " \o ToString(h)

RECURSIVE Repeat(_, _)
Repeat(t, n) == IF n = 0 THEN "" ELSE t \o Repeat(t, n - 1)

\* the changed content of the commits of the file system: one large change,
\* one commit whose diff cannot be generated, small changes otherwise
RawDiff(r, h) ==
    IF r = "A" /\ h = 1 THEN Repeat("+ added line\n", 24)
    ELSE "diff of " \o r \o "/" \o ToString(h)

DiffAvailable(r, h) == ~(r = "B" /\ h = 1)

\* 4.3 size bound: the policy constant and the mark left at the cut
MaxDiffChars == 200
TruncationMarker == "\n[truncated]"

\* 4.3: the summary of one commit, cut to the size bound; a commit whose
\* diff generation fails (DiffUnavailable) has the empty summary
DiffSummary(r, h) ==
    IF ~DiffAvailable(r, h) THEN ""
    ELSE IF Len(RawDiff(r, h)) > MaxDiffChars
         THEN SubSeq(RawDiff(r, h), 1, MaxDiffChars) \o TruncationMarker
         ELSE RawDiff(r, h)

RECURSIVE HistoryWalk(_, _, _)
\* the commits of one repository as records, hash by hash
HistoryWalk(cs, p, h) ==
    IF h > MaxHash THEN <<>>
    ELSE (IF \E c \in cs : c.hash = h
          THEN LET c == CHOOSE c \in cs : c.hash = h
               IN  <<[hash |-> h, time |-> c.time, repo |-> OpenRepo(p),
                      repo_name |-> DisplayName(p), message |-> Message(h),
                      diff |-> NoDiff]>>
          ELSE <<>>) \o HistoryWalk(cs, p, h + 1)

\* 4.2: the in-window commits of the repository at path p, newest first
ExtractCommits(rs, p, w) ==
    SortCommits(SelectSeq(HistoryWalk(rs[OpenRepo(p)], p, 1),
                          LAMBDA c : InWindow(c.time, w)))

\* step 3: attach the diff summaries when deep analysis is on
AttachDiffs(s, deep) ==
    [i \in DOMAIN s |->
        IF deep THEN [s[i] EXCEPT !.diff = SomeDiff(DiffSummary(s[i].repo, s[i].hash))]
        ELSE s[i]]

\* steps 1-3 for one repository reference
RepoTask(rs, p, w, deep) ==
    IF OpenRepo(p) = "none"
    THEN [st |-> "failed", commits |-> <<>>]
    ELSE [st |-> "ok", commits |-> AttachDiffs(ExtractCommits(rs, p, w), deep)]

\* steps 4-5 over the collected per-repository results, in configured order
MergeResults(results) ==
    Dedup(SortCommits(Flatten([i \in DOMAIN results |-> results[i].commits])))

WarningsOf(ps, results) ==
    {ps[i] : i \in {j \in DOMAIN ps : results[j].st = "failed"}}

\* the whole scan, run sequentially
Scan(rs, ps, w, deep) ==
    LET results == [i \in DOMAIN ps |-> RepoTask(rs, ps[i], w, deep)]
    IN  [commits |-> MergeResults(results), warnings |-> WarningsOf(ps, results)]

(***************************************************************************)
(* 4.6 AI Provider Gateway.                                                *)
(***************************************************************************)
Null == <<>>                         \* base_url: string | null
Some(x) == <<x>>

\* mutant: the select offers the variant under another name
ProviderOptionsRenamed == {"openai-compatible", "anthropic", "gemini"}

\* the values of the provider <select> (App.tsx)
ProviderOptions == {"openai", "anthropic", "gemini"}

DefaultBase(provider) ==
    CASE provider = "openai" -> "https://api.openai.com/v1"
      [] provider = "anthropic" -> "https://api.anthropic.com/v1"
      [] OTHER -> "https://generativelanguage.googleapis.com/v1beta"

BaseOf(req) == IF req.base_url = Null THEN DefaultBase(req.provider) ELSE req.base_url[1]

\* the provider-specific HTTP call built for one AiRequest
BuildOutboundCall(req) ==
    CASE req.provider = "openai" ->
            [url |-> BaseOf(req) \o "/chat/completions",
             auth |-> "Authorization: Bearer", version_header |-> FALSE,
             query_key |-> FALSE, body |-> "chat-completions"]
      [] req.provider = "anthropic" ->
            [url |-> BaseOf(req) \o "/messages",
             auth |-> "x-api-key", version_header |-> TRUE,
             query_key |-> FALSE, body |-> "messages"]
      [] req.provider = "gemini" ->
            [url |-> BaseOf(req) \o "/models/" \o req.model \o ":generateContent",
             auth |-> "none", version_header |-> FALSE,
             query_key |-> TRUE, body |-> "generate-content"]
      [] OTHER ->
            [url |-> "", auth |-> "none", version_header |-> FALSE,
             query_key |-> FALSE, body |-> "unsupported"]

\* what the transport can do with one request
HttpOutcomes ==
    {[kind |-> "response", status |-> 200, body |-> "json"],
     [kind |-> "response", status |-> 200, body |-> "malformed"],
     [kind |-> "response", status |-> 401, body |-> "json"]}

TimedOut == [kind |-> "timeout", status |-> 0, body |-> ""]

IsSuccessStatus(n) == 200 <= n /\ n <= 299

\* the normalisation of a transport outcome into one AiResult
MapOutcome(o) ==
    IF o.kind = "timeout"
    THEN [ok |-> FALSE, failure |-> "Timeout", status |-> 0, text |-> ""]
    ELSE IF ~IsSuccessStatus(o.status)
    THEN [ok |-> FALSE, failure |-> "ProviderError", status |-> o.status, text |-> ""]
    ELSE IF o.body = "malformed"
    THEN [ok |-> FALSE, failure |-> "ProtocolError", status |-> 0, text |-> ""]
    ELSE [ok |-> TRUE, failure |-> "", status |-> o.status, text |-> "## Daily summary"]

FailureText(res) ==
    IF res.failure = "ProviderError"
    THEN res.failure \o " " \o ToString(res.status)
    ELSE res.failure

(***************************************************************************)
(* src/src/App.tsx                                                         *)
(***************************************************************************)
InitialConfig ==
    [api_key |-> "", git_paths |-> <<>>, provider |-> "openai",
     model |-> "gpt-4o", base_url |-> Null, custom_rules |-> "",
     report_template |-> "", deep_analysis |-> FALSE]

\* the values a settings control can hand to updateConfig
ConfigInputs ==
    [provider : ProviderOptions] \cup [deep_analysis : BOOLEAN]

\* GitCommit as the front end declares it
ToGitCommit(c) ==
    [hash |-> c.hash, message |-> c.message, author |-> "dev", time |-> c.time,
     repo_name |-> c.repo_name, diff |-> c.diff]

ToGitCommits(s) == [i \in DOMAIN s |-> ToGitCommit(s[i])]

RECURSIVE Join(_, _)
\* Array.prototype.join
Join(s, sep) ==
    IF s = <<>> THEN ""
    ELSE IF Len(s) = 1 THEN s[1]
    ELSE s[1] \o sep \o Join(Tail(s), sep)

\* mutant: a diff that is set counts as present, empty or not
TruthyWhenSet(diff) == diff # NoDiff

\* JavaScript truthiness of an optional string
Truthy(diff) == diff # NoDiff /\ diff[1] # ""

LogLine(l) == "- " \o l.content

\* the code fence of the source (three backquotes) is written ~~~ here: a
\* TLA+ string cannot hold a backquote
Fence == "~~~"

CommitText(g) ==
    "- [" \o g.repo_name \o "] " \o g.message
        \o (IF Truthy(g.diff)
            THEN "\n  Code Diff Summary:\n" \o Fence \o "\n" \o g.diff[1] \o "\n" \o Fence
            ELSE "")

\* the diff preview of the commit list of the log tab
PreviewChars == 150

DiffPreview(g) ==
    SubSeq(g.diff[1], 1, IF Len(g.diff[1]) < PreviewChars THEN Len(g.diff[1])
                         ELSE PreviewChars) \o "..."

\* what the commit list shows of each commit: name, message, diff preview
CommitList(gs) ==
    [i \in DOMAIN gs |->
        [repo_name |-> gs[i].repo_name, message |-> gs[i].message,
         diff |-> IF Truthy(gs[i].diff) THEN <<DiffPreview(gs[i])>> ELSE <<>>]]

AnalysisInstruction ==
    "Provide a comprehensive summary, 3 improvements, and 1 key knowledge point. If code diffs are provided, use them to explain technical details."

\* mutant: the template is appended in both modes
BaseInstructionTemplateAlways(type, cfg) ==
    (IF type = "analysis" THEN AnalysisInstruction
     ELSE "Strictly follow the format below:\n\nFormat Template:")
        \o "\n" \o cfg.report_template

BaseInstruction(type, cfg) ==
    IF type = "analysis" THEN AnalysisInstruction
    ELSE "Strictly follow the format below:\n\nFormat Template:\n" \o cfg.report_template

ContextHeader == "\n        Context:"
LogsHeader == "\n        Manual Logs:\n        "
GitHeader == "\n        \n        Git Commits:\n        "
InstructionHeader == "\n        \n        System Instruction:\n        "
RulesHeader == "\n        \n        Additional User Rules:\n        "
PromptTail == "\n      "

\* mutant: a section whose list is empty is left out
generatePromptOmitEmpty(type, ls, gs, cfg) ==
    LET logsText == Join([i \in DOMAIN ls |-> LogLine(ls[i])], "\n")
        gitText == Join([i \in DOMAIN gs |-> CommitText(gs[i])], "\n")
    IN  ContextHeader
            \o (IF ls = <<>> THEN "" ELSE LogsHeader \o logsText)
            \o (IF gs = <<>> THEN "" ELSE GitHeader \o gitText)
            \o InstructionHeader \o BaseInstruction(type, cfg)
            \o RulesHeader \o cfg.custom_rules \o PromptTail

\* mutant: the commit section before the log section
generatePromptGitFirst(type, ls, gs, cfg) ==
    LET logsText == Join([i \in DOMAIN ls |-> LogLine(ls[i])], "\n")
        gitText == Join([i \in DOMAIN gs |-> CommitText(gs[i])], "\n")
    IN  ContextHeader \o GitHeader \o gitText
            \o LogsHeader \o logsText
            \o InstructionHeader \o BaseInstruction(type, cfg)
            \o RulesHeader \o cfg.custom_rules \o PromptTail

generatePrompt(type, ls, gs, cfg) ==
    LET logsText == Join([i \in DOMAIN ls |-> LogLine(ls[i])], "\n")
        gitText == Join([i \in DOMAIN gs |-> CommitText(gs[i])], "\n")
    IN  ContextHeader \o LogsHeader \o logsText
            \o GitHeader \o gitText
            \o InstructionHeader \o BaseInstruction(type, cfg)
            \o RulesHeader \o cfg.custom_rules \o PromptTail

RemoveAt(s, k) == SubSeq(s, 1, k - 1) \o SubSeq(s, k + 1, Len(s))

\* the world the front end runs against
FixtureRepos ==
    [r \in RepoIds |->
        IF r = "A" THEN {[hash |-> 1, time |-> 2], [hash |-> 2, time |-> 1]}
        ELSE {[hash |-> 1, time |-> 1]}]

FixtureWindow == [start |-> 1, end |-> 3]

FixtureLogs == <<[id |-> 1, content |-> "wrote parser"],
                 [id |-> 2, content |-> "reviewed PR"]>>

StoredConfigs ==
    {[api_key |-> "sk-test", git_paths |-> <<"a1", "bad", "b">>,
      provider |-> "openai", model |-> "gpt-4o", base_url |-> b,
      custom_rules |-> "Be brief.\nNo emoji.",
      report_template |-> "# Daily Report\n## Done\n- {items}",
      deep_analysis |-> FALSE] : b \in {Null, Some("https://proxy.local/v1")}}

\* the setup script is not part of the run
EnvIdle ==
    /\ installDir = ""
    /\ userPath = ""
    /\ pathAtStart = ""
    /\ runs = 0

AggIdle ==
    /\ aggPaths = <<>>
    /\ aggDeep = FALSE
    /\ taskResult = <<>>
    /\ aggPc = "idle"
    /\ aggCommits = <<>>
    /\ aggWarnings = {}

\* the component right after mount: useState defaults, the two invocations
\* of the mount effect in flight
GuiInit ==
    /\ activeTab = "log"
    /\ logs = <<>>
    /\ gitLogs = <<>>
    /\ config = InitialConfig
    /\ reviewResult = ""
    /\ reviewMode = "analysis"
    /\ isAiLoading = FALSE
    /\ lastAlert = ""
    /\ logStore = FixtureLogs
    /\ pendingInit = {"get_config", "get_today_logs"}
    /\ scanCalls = <<>>
    /\ aiCalls = <<>>
    /\ newGitPath = ""
    /\ saveCalls = <<>>
    /\ syncedConfig = InitialConfig
    /\ newLog = ""
    /\ logCalls = <<>>
    /\ logOps = 0

Init ==
    /\ repos = FixtureRepos
    /\ window = FixtureWindow
    /\ storedConfig \in StoredConfigs
    /\ AggIdle
    /\ EnvIdle
    /\ GuiInit

\* alert() is modal: while the box is open the page runs no handler and no
\* continuation of an awaited invocation
NoAlertOpen == lastAlert = ""

\* the open box is the alert of the catch block of handleAiReview
AiFailureAlertOpen ==
    Len(lastAlert) >= 17 /\ SubSeq(lastAlert, 1, 17) = "AI Action Failed:"

\* mutant: the loading flag is reset in the try block only
DismissAlertNoFinally ==
    /\ lastAlert # ""
    /\ lastAlert' = ""
    /\ UNCHANGED <<aggVars, envVars, settingsVars, logVars, activeTab, logs, gitLogs,
                   config, reviewResult, reviewMode, isAiLoading, storedConfig,
                   logStore, pendingInit, scanCalls, aiCalls>>

\* the user closes the box and alert() returns; after the alert of the catch
\* block of handleAiReview the finally block runs
DismissAlert ==
    /\ lastAlert # ""
    /\ lastAlert' = ""
    /\ isAiLoading' = IF AiFailureAlertOpen THEN FALSE ELSE isAiLoading
    /\ UNCHANGED <<aggVars, envVars, settingsVars, logVars, activeTab, logs, gitLogs,
                   config, reviewResult, reviewMode, storedConfig, logStore,
                   pendingInit, scanCalls, aiCalls>>

\* useEffect / init: get_config answers
GetConfigReturn ==
    /\ NoAlertOpen
    /\ "get_config" \in pendingInit
    /\ pendingInit' = pendingInit \ {"get_config"}
    /\ config' = storedConfig
    /\ syncedConfig' = storedConfig
    /\ UNCHANGED <<aggVars, envVars, newGitPath, saveCalls, logVars, activeTab, logs, gitLogs, reviewResult, reviewMode,
                   isAiLoading, lastAlert, storedConfig, logStore, scanCalls, aiCalls>>

\* loadLogs: get_today_logs answers
LoadLogsReturn ==
    /\ NoAlertOpen
    /\ "get_today_logs" \in pendingInit
    /\ pendingInit' = pendingInit \ {"get_today_logs"}
    /\ logs' = logStore
    /\ UNCHANGED <<aggVars, envVars, settingsVars, logVars, activeTab, gitLogs, config, reviewResult, reviewMode,
                   isAiLoading, lastAlert, storedConfig, logStore, scanCalls, aiCalls>>

\* the tab buttons
SetActiveTab(t) ==
    /\ NoAlertOpen
    /\ activeTab # t
    /\ activeTab' = t
    /\ UNCHANGED <<aggVars, envVars, settingsVars, logVars, logs, gitLogs, config, reviewResult, reviewMode,
                   isAiLoading, lastAlert, storedConfig, logStore, pendingInit,
                   scanCalls, aiCalls>>

\* updateConfig(key, value), from a control of the settings tab
updateConfig(key, value) ==
    /\ NoAlertOpen
    /\ activeTab = "settings"
    /\ config' = [config EXCEPT ![key] = value]
    /\ UNCHANGED <<aggVars, envVars, settingsVars, logVars, activeTab, logs, gitLogs, reviewResult, reviewMode,
                   isAiLoading, lastAlert, storedConfig, logStore, pendingInit,
                   scanCalls, aiCalls>>

\* mutant: the flag is not taken from the configuration
ScanRequestAlwaysDeep(cfg) == [paths |-> cfg.git_paths, deepAnalysis |-> TRUE]

\* the arguments handleSyncGit hands to scan_git_repos
ScanRequest(cfg) == [paths |-> cfg.git_paths, deepAnalysis |-> cfg.deep_analysis]

handleSyncGit ==
    /\ NoAlertOpen
    /\ activeTab = "log"
    /\ IF Len(config.git_paths) = 0
       THEN /\ lastAlert' = "Please configure Git Repo Paths in Settings first."
            /\ activeTab' = "settings"
            /\ UNCHANGED scanCalls
       ELSE /\ Len(scanCalls) < MaxScanCalls
            /\ scanCalls' = Append(scanCalls, ScanRequest(config))
            /\ UNCHANGED <<lastAlert, activeTab>>
    /\ UNCHANGED <<aggVars, envVars, settingsVars, logVars, logs, gitLogs, config, reviewResult, reviewMode,
                   isAiLoading, storedConfig, logStore, pendingInit, aiCalls>>

\* what the scan_git_repos command answers: the commit list
ScanResponse(req) ==
    ToGitCommits(Scan(repos, req.paths, window, req.deepAnalysis).commits)

\* the warnings that reach the caller: invoke<GitCommit[]> yields the commit
\* array alone, and handleSyncGit reads nothing else from the reply
DeliveredWarnings(reply) == {}

\* scan_git_repos answers and handleSyncGit resumes
ScanGitReposReturn(k) ==
    /\ NoAlertOpen
    /\ k \in DOMAIN scanCalls
    /\ LET commits == ScanResponse(scanCalls[k])
       IN  /\ gitLogs' = commits
           /\ lastAlert' =
                 IF scanCalls[k].deepAnalysis
                 THEN "Synced " \o ToString(Len(commits)) \o " commits with deep analysis."
                 ELSE lastAlert
    /\ scanCalls' = RemoveAt(scanCalls, k)
    /\ UNCHANGED <<aggVars, envVars, settingsVars, logVars, activeTab, logs, config, reviewResult, reviewMode,
                   isAiLoading, storedConfig, logStore, pendingInit, aiCalls>>

\* the request object handleAiReview hands to call_ai
AiRequest(mode, ls, gs, cfg) ==
    [provider |-> cfg.provider, api_key |-> cfg.api_key, model |-> cfg.model,
     prompt |-> generatePrompt(mode, ls, gs, cfg), base_url |-> cfg.base_url]

\* the gateway receives the request and issues its single HTTP attempt
Dispatch(req) ==
    [req |-> req, http |-> BuildOutboundCall(req), attempts |-> 1, outcome |-> <<>>]

\* mutant: the mode is stored before the key is checked
handleAiReviewModeFirst(mode) ==
    /\ NoAlertOpen
    /\ activeTab = "review"
    /\ ~isAiLoading
    /\ reviewMode' = mode
    /\ IF config.api_key = ""
       THEN /\ lastAlert' = "Please configure API Key in Settings first."
            /\ activeTab' = "settings"
            /\ UNCHANGED <<isAiLoading, aiCalls>>
       ELSE /\ isAiLoading' = TRUE
            /\ aiCalls' = Append(aiCalls, Dispatch(AiRequest(mode, logs, gitLogs, config)))
            /\ UNCHANGED <<lastAlert, activeTab>>
    /\ UNCHANGED <<aggVars, envVars, settingsVars, logVars, logs, gitLogs, config,
                   reviewResult, storedConfig, logStore, pendingInit, scanCalls>>

\* mutant: the review buttons stay enabled while a review is loading
handleAiReviewNotDisabled(mode) ==
    /\ NoAlertOpen
    /\ activeTab = "review"
    /\ IF config.api_key = ""
       THEN /\ lastAlert' = "Please configure API Key in Settings first."
            /\ activeTab' = "settings"
            /\ UNCHANGED <<reviewMode, isAiLoading, aiCalls>>
       ELSE /\ reviewMode' = mode
            /\ isAiLoading' = TRUE
            /\ aiCalls' = Append(aiCalls, Dispatch(AiRequest(mode, logs, gitLogs, config)))
            /\ UNCHANGED <<lastAlert, activeTab>>
    /\ UNCHANGED <<aggVars, envVars, settingsVars, logVars, logs, gitLogs, config,
                   reviewResult, storedConfig, logStore, pendingInit, scanCalls>>

\* the Start Analysis / Export Report buttons (disabled={isAiLoading})
handleAiReview(mode) ==
    /\ NoAlertOpen
    /\ activeTab = "review"
    /\ ~isAiLoading
    /\ IF config.api_key = ""
       THEN /\ lastAlert' = "Please configure API Key in Settings first."
            /\ activeTab' = "settings"
            /\ UNCHANGED <<reviewMode, isAiLoading, aiCalls>>
       ELSE /\ reviewMode' = mode
            /\ isAiLoading' = TRUE
            /\ aiCalls' = Append(aiCalls, Dispatch(AiRequest(mode, logs, gitLogs, config)))
            /\ UNCHANGED <<lastAlert, activeTab>>
    /\ UNCHANGED <<aggVars, envVars, settingsVars, logVars, logs, gitLogs, config, reviewResult, storedConfig,
                   logStore, pendingInit, scanCalls>>

\* the transport answers the outstanding attempt
TransportAnswer(k, o) ==
    /\ k \in DOMAIN aiCalls
    /\ aiCalls[k].outcome = <<>>
    /\ aiCalls' = [aiCalls EXCEPT ![k].outcome = <<o>>]
    /\ UNCHANGED <<aggVars, envVars, settingsVars, logVars, activeTab, logs, gitLogs, config, reviewResult,
                   reviewMode, isAiLoading, lastAlert, storedConfig, logStore,
                   pendingInit, scanCalls>>

\* mutant: no request timeout
TimeoutNever(call) == FALSE

\* the request timeout of the gateway expires
TimeoutEnabled(call) == call.outcome = <<>>

GatewayTimeout(k) ==
    /\ k \in DOMAIN aiCalls
    /\ TimeoutEnabled(aiCalls[k])
    /\ aiCalls' = [aiCalls EXCEPT ![k].outcome = <<TimedOut>>]
    /\ UNCHANGED <<aggVars, envVars, settingsVars, logVars, activeTab, logs, gitLogs, config, reviewResult,
                   reviewMode, isAiLoading, lastAlert, storedConfig, logStore,
                   pendingInit, scanCalls>>

\* mutant: the failure is stored as the review text
ReviewTextOrFailure(res, old) == IF res.ok THEN res.text ELSE res.failure

\* the text handleAiReview stores on success
ReviewText(res, old) == IF res.ok THEN res.text ELSE old

\* call_ai answers and handleAiReview resumes: on success try and finally,
\* on failure the catch block up to its alert(), which blocks until the box
\* is closed (the finally block is part of DismissAlert)
CallAiReturn(k) ==
    /\ NoAlertOpen
    /\ k \in DOMAIN aiCalls
    /\ aiCalls[k].outcome # <<>>
    /\ LET res == MapOutcome(aiCalls[k].outcome[1])
       IN  /\ reviewResult' = ReviewText(res, reviewResult)
           /\ lastAlert' = IF res.ok THEN lastAlert
                           ELSE "AI Action Failed: " \o FailureText(res)
           /\ isAiLoading' = IF res.ok THEN FALSE ELSE isAiLoading
    /\ aiCalls' = RemoveAt(aiCalls, k)
    /\ UNCHANGED <<aggVars, envVars, settingsVars, logVars, activeTab, logs, gitLogs, config, reviewMode,
                   storedConfig, logStore, pendingInit, scanCalls>>

\* what the user can type into the note input
LogInputs == {"", "  ", "fixed login bug"}

\* onChange of the note input
SetNewLog(t) ==
    /\ NoAlertOpen
    /\ activeTab = "log"
    /\ newLog # t
    /\ newLog' = t
    /\ UNCHANGED <<aggVars, envVars, settingsVars, logCalls, logOps, activeTab, logs,
                   gitLogs, config, reviewResult, reviewMode, isAiLoading,
                   lastAlert, storedConfig, logStore, pendingInit, scanCalls,
                   aiCalls>>

RECURSIVE Trim(_)
\* String.prototype.trim, for blanks
Trim(t) ==
    IF t = "" THEN ""
    ELSE IF SubSeq(t, 1, 1) = " " THEN Trim(SubSeq(t, 2, Len(t)))
    ELSE IF SubSeq(t, Len(t), Len(t)) = " " THEN Trim(SubSeq(t, 1, Len(t) - 1))
    ELSE t

\* an invocation of a log store command, not yet served
LogCall(cmd, content, id) ==
    [cmd |-> cmd, content |-> content, id |-> id, served |-> FALSE,
     snapshot |-> <<>>]

\* loadLogs up to its await
GetTodayLogs == LogCall("get_today_logs", "", 0)

\* Add Note / Enter in the note input: handleAddLog up to its first await
handleAddLog ==
    /\ NoAlertOpen
    /\ activeTab = "log"
    /\ IF Trim(newLog) = ""
       THEN UNCHANGED logCalls
       ELSE /\ Len(logCalls) < MaxLogCalls
            /\ logOps + Cardinality({k \in DOMAIN logCalls :
                                        /\ logCalls[k].cmd = "save_log"
                                        /\ ~logCalls[k].served}) < MaxLogOps
            /\ logCalls' = Append(logCalls, LogCall("save_log", newLog, 0))
    /\ UNCHANGED <<aggVars, envVars, settingsVars, newLog, logOps, activeTab, logs,
                   gitLogs, config, reviewResult, reviewMode, isAiLoading,
                   lastAlert, storedConfig, logStore, pendingInit, scanCalls,
                   aiCalls>>

\* the delete button of a displayed entry: handleDeleteLog up to its await;
\* confirm() is answered with OK or with Cancel
handleDeleteLog(id, confirmed) ==
    /\ NoAlertOpen
    /\ activeTab = "log"
    /\ \E i \in DOMAIN logs : logs[i].id = id
    /\ IF ~confirmed
       THEN UNCHANGED logCalls
       ELSE /\ Len(logCalls) < MaxLogCalls
            /\ logCalls' = Append(logCalls, LogCall("delete_log", "", id))
    /\ UNCHANGED <<aggVars, envVars, settingsVars, newLog, logOps, activeTab, logs,
                   gitLogs, config, reviewResult, reviewMode, isAiLoading,
                   lastAlert, storedConfig, logStore, pendingInit, scanCalls,
                   aiCalls>>

\* the log store executes one invocation; invocations are commands of the
\* asynchronous IPC and are executed and answered in no fixed order
LogStoreServes(k) ==
    /\ k \in DOMAIN logCalls
    /\ ~logCalls[k].served
    /\ logStore' =
          CASE logCalls[k].cmd = "save_log" ->
                   Append(logStore, [id |-> Len(FixtureLogs) + logOps + 1,
                                     content |-> logCalls[k].content])
            [] logCalls[k].cmd = "delete_log" ->
                   SelectSeq(logStore, LAMBDA l : l.id # logCalls[k].id)
            [] OTHER -> logStore
    /\ logOps' = IF logCalls[k].cmd = "save_log" THEN logOps + 1 ELSE logOps
    /\ logCalls' = [logCalls EXCEPT
                      ![k].served = TRUE,
                      ![k].snapshot = IF logCalls[k].cmd = "get_today_logs"
                                      THEN logStore ELSE <<>>]
    /\ UNCHANGED <<aggVars, envVars, settingsVars, newLog, activeTab, logs, gitLogs,
                   config, reviewResult, reviewMode, isAiLoading, lastAlert,
                   storedConfig, pendingInit, scanCalls, aiCalls>>

\* the answer of a served invocation arrives and its handler resumes:
\* handleAddLog clears the input and calls loadLogs, handleDeleteLog calls
\* loadLogs, loadLogs stores the list it was sent
LogCallReturns(k) ==
    /\ NoAlertOpen
    /\ k \in DOMAIN logCalls
    /\ logCalls[k].served
    /\ IF logCalls[k].cmd = "get_today_logs"
       THEN /\ logs' = logCalls[k].snapshot
            /\ logCalls' = RemoveAt(logCalls, k)
            /\ UNCHANGED newLog
       ELSE /\ logCalls' = Append(RemoveAt(logCalls, k), GetTodayLogs)
            /\ newLog' = IF logCalls[k].cmd = "save_log" THEN "" ELSE newLog
            /\ UNCHANGED logs
    /\ UNCHANGED <<aggVars, envVars, settingsVars, logOps, activeTab, gitLogs, config,
                   reviewResult, reviewMode, isAiLoading, lastAlert,
                   storedConfig, logStore, pendingInit, scanCalls, aiCalls>>

\* the log store rejects a save or a delete (the catch blocks)
LogCallFails(k) ==
    /\ NoAlertOpen
    /\ k \in DOMAIN logCalls
    /\ ~logCalls[k].served
    /\ logCalls[k].cmd # "get_today_logs"
    /\ lastAlert' = (IF logCalls[k].cmd = "save_log" THEN "Failed to save log: "
                     ELSE "Failed to delete log: ") \o "store not writable"
    /\ logCalls' = RemoveAt(logCalls, k)
    /\ UNCHANGED <<aggVars, envVars, settingsVars, newLog, logOps, activeTab, logs,
                   gitLogs, config, reviewResult, reviewMode, isAiLoading,
                   storedConfig, logStore, pendingInit, scanCalls, aiCalls>>

\* what the user can type into the repository path input
PathInputs == Paths \cup {""}

\* onChange of the repository path input
SetNewGitPath(p) ==
    /\ NoAlertOpen
    /\ activeTab = "settings"
    /\ newGitPath # p
    /\ newGitPath' = p
    /\ UNCHANGED <<aggVars, envVars, saveCalls, syncedConfig, logVars, activeTab, logs,
                   gitLogs, config, reviewResult, reviewMode, isAiLoading,
                   lastAlert, storedConfig, logStore, pendingInit, scanCalls,
                   aiCalls>>

\* Array.prototype.includes
Includes(s, x) == \E i \in DOMAIN s : s[i] = x

\* mutant: the path is appended whether it is in the list or not
addGitPathNoIncludes ==
    /\ NoAlertOpen
    /\ activeTab = "settings"
    /\ IF newGitPath # ""
       THEN /\ config' = [config EXCEPT !.git_paths = Append(@, newGitPath)]
            /\ newGitPath' = ""
       ELSE UNCHANGED <<config, newGitPath>>
    /\ UNCHANGED <<aggVars, envVars, saveCalls, syncedConfig, logVars, activeTab, logs,
                   gitLogs, reviewResult, reviewMode, isAiLoading, lastAlert,
                   storedConfig, logStore, pendingInit, scanCalls, aiCalls>>

\* the + button next to the repository path input
addGitPath ==
    /\ NoAlertOpen
    /\ activeTab = "settings"
    /\ IF newGitPath # "" /\ ~Includes(config.git_paths, newGitPath)
       THEN /\ config' = [config EXCEPT !.git_paths = Append(@, newGitPath)]
            /\ newGitPath' = ""
       ELSE UNCHANGED <<config, newGitPath>>
    /\ UNCHANGED <<aggVars, envVars, saveCalls, syncedConfig, logVars, activeTab, logs,
                   gitLogs, reviewResult, reviewMode, isAiLoading, lastAlert,
                   storedConfig, logStore, pendingInit, scanCalls, aiCalls>>

\* the x button of one row of the repository list
removeGitPath(pathToRemove) ==
    /\ NoAlertOpen
    /\ activeTab = "settings"
    /\ Includes(config.git_paths, pathToRemove)
    /\ config' = [config EXCEPT
                    !.git_paths = SelectSeq(@, LAMBDA p : p # pathToRemove)]
    /\ UNCHANGED <<aggVars, envVars, settingsVars, logVars, activeTab, logs, gitLogs,
                   reviewResult, reviewMode, isAiLoading, lastAlert,
                   storedConfig, logStore, pendingInit, scanCalls, aiCalls>>

\* the Save button of the settings tab: save_config is invoked with the
\* configuration of the render the click happened in
saveSettings ==
    /\ NoAlertOpen
    /\ activeTab = "settings"
    /\ Len(saveCalls) < MaxSaveCalls
    /\ saveCalls' = Append(saveCalls, config)
    /\ UNCHANGED <<aggVars, envVars, newGitPath, syncedConfig, logVars, activeTab, logs,
                   gitLogs, config, reviewResult, reviewMode, isAiLoading,
                   lastAlert, storedConfig, logStore, pendingInit, scanCalls,
                   aiCalls>>

\* save_config writes the store and saveSettings resumes
SaveConfigReturn(k) ==
    /\ NoAlertOpen
    /\ k \in DOMAIN saveCalls
    /\ storedConfig' = saveCalls[k]
    /\ syncedConfig' = saveCalls[k]
    /\ lastAlert' = "Settings Saved Successfully to Backend!"
    /\ saveCalls' = RemoveAt(saveCalls, k)
    /\ UNCHANGED <<aggVars, envVars, newGitPath, logVars, activeTab, logs, gitLogs, config,
                   reviewResult, reviewMode, isAiLoading, logStore, pendingInit,
                   scanCalls, aiCalls>>

\* save_config is rejected (the catch branch of saveSettings)
SaveConfigFails(k) ==
    /\ NoAlertOpen
    /\ k \in DOMAIN saveCalls
    /\ lastAlert' = "Failed to save settings: store not writable"
    /\ saveCalls' = RemoveAt(saveCalls, k)
    /\ UNCHANGED <<aggVars, envVars, newGitPath, syncedConfig, logVars, activeTab, logs,
                   gitLogs, config, reviewResult, reviewMode, isAiLoading,
                   storedConfig, logStore, pendingInit, scanCalls, aiCalls>>

\* the changes `da config` can make to the store
CliChanges == [deep_analysis : BOOLEAN] \cup [add_repo : {"a2"}]

ApplyCli(cfg, ch) ==
    IF "deep_analysis" \in DOMAIN ch
    THEN [cfg EXCEPT !.deep_analysis = ch.deep_analysis]
    ELSE [cfg EXCEPT !.git_paths =
             IF \E i \in DOMAIN @ : @[i] = ch.add_repo THEN @
             ELSE Append(@, ch.add_repo)]

\* `da config ...` run in a terminal: the CLI rewrites the shared store
CliConfig(ch) ==
    /\ ApplyCli(storedConfig, ch) # storedConfig
    /\ storedConfig' = ApplyCli(storedConfig, ch)
    /\ UNCHANGED <<aggVars, envVars, settingsVars, logVars, activeTab, logs, gitLogs,
                   config, reviewResult, reviewMode, isAiLoading, lastAlert,
                   logStore, pendingInit, scanCalls, aiCalls>>

Next ==
    \/ DismissAlert
    \/ GetConfigReturn
    \/ LoadLogsReturn
    \/ \E t \in {"log", "review", "settings"} : SetActiveTab(t)
    \/ \E kv \in ConfigInputs : \E key \in DOMAIN kv : updateConfig(key, kv[key])
    \/ handleSyncGit
    \/ \E k \in 1..MaxScanCalls : ScanGitReposReturn(k)
    \/ \E mode \in {"analysis", "export"} : handleAiReview(mode)
    \/ \E k \in DOMAIN aiCalls : \E o \in HttpOutcomes : TransportAnswer(k, o)
    \/ \E k \in DOMAIN aiCalls : GatewayTimeout(k)
    \/ \E k \in DOMAIN aiCalls : CallAiReturn(k)

Spec == Init /\ [][Next]_vars

\* the review workflow alone: the page without the git sync, which neither
\* reads nor writes a call_ai invocation
ReviewNext ==
    \/ DismissAlert
    \/ GetConfigReturn
    \/ LoadLogsReturn
    \/ \E t \in {"log", "review", "settings"} : SetActiveTab(t)
    \/ \E kv \in ConfigInputs : \E key \in DOMAIN kv : updateConfig(key, kv[key])
    \/ \E mode \in {"analysis", "export"} : handleAiReview(mode)
    \/ \E k \in DOMAIN aiCalls : \E o \in HttpOutcomes : TransportAnswer(k, o)
    \/ \E k \in DOMAIN aiCalls : GatewayTimeout(k)
    \/ \E k \in DOMAIN aiCalls : CallAiReturn(k)

\* the request timeout is a timer of the gateway: it fires unless the call
\* has ended; the transport and the user are under no obligation
FairSpec ==
    Init /\ [][ReviewNext]_vars
         /\ WF_vars(\E k \in DOMAIN aiCalls : GatewayTimeout(k))

(***************************************************************************)
(* The log tab: notes added and deleted, the list refreshed after each.    *)
(***************************************************************************)
\* the component right after mount, the loadLogs of the mount effect among
\* the log store invocations in flight
LogsInit ==
    /\ repos = FixtureRepos
    /\ window = FixtureWindow
    /\ storedConfig \in StoredConfigs
    /\ AggIdle
    /\ activeTab = "log"
    /\ logs = <<>>
    /\ gitLogs = <<>>
    /\ config = InitialConfig
    /\ reviewResult = ""
    /\ reviewMode = "analysis"
    /\ isAiLoading = FALSE
    /\ lastAlert = ""
    /\ logStore = FixtureLogs
    /\ pendingInit = {"get_config"}
    /\ scanCalls = <<>>
    /\ aiCalls = <<>>
    /\ newGitPath = ""
    /\ saveCalls = <<>>
    /\ syncedConfig = InitialConfig
    /\ newLog = ""
    /\ logCalls = <<GetTodayLogs>>
    /\ logOps = 0
    /\ EnvIdle

LogsNext ==
    \/ DismissAlert
    \/ GetConfigReturn
    \/ \E t \in LogInputs : SetNewLog(t)
    \/ handleAddLog
    \/ \E id \in 1..(Len(FixtureLogs) + MaxLogOps) :
          \E confirmed \in BOOLEAN : handleDeleteLog(id, confirmed)
    \/ \E k \in DOMAIN logCalls : LogStoreServes(k)
    \/ \E k \in DOMAIN logCalls : LogCallReturns(k)
    \/ \E k \in DOMAIN logCalls : LogCallFails(k)

SpecLogs == LogsInit /\ [][LogsNext]_vars

(***************************************************************************)
(* The settings tab: the repository list, and the store with its two       *)
(* writers, the page and the CLI.                                          *)
(***************************************************************************)
PathsNext ==
    \/ GetConfigReturn
    \/ \E t \in {"log", "settings"} : SetActiveTab(t)
    \/ \E p \in PathInputs : SetNewGitPath(p)
    \/ addGitPath
    \/ \E p \in Paths : removeGitPath(p)

SpecPaths == Init /\ [][PathsNext]_vars

ConfigNext ==
    \/ DismissAlert
    \/ GetConfigReturn
    \/ \E t \in {"log", "settings"} : SetActiveTab(t)
    \/ \E b \in BOOLEAN : updateConfig("deep_analysis", b)
    \/ saveSettings
    \/ \E k \in DOMAIN saveCalls : SaveConfigReturn(k)
    \/ \E k \in DOMAIN saveCalls : SaveConfigFails(k)
    \/ \E ch \in CliChanges : CliConfig(ch)

SpecConfig == Init /\ [][ConfigNext]_vars

(***************************************************************************)
(* src/unnamed/part_000: setup-env.ps1                                     *)
(***************************************************************************)
CharAt(t, i) == SubSeq(t, i, i)

UpperLetters == "ABCDEFGHIJKLMNOPQRSTUVWXYZ"
LowerLetters == "abcdefghijklmnopqrstuvwxyz"

\* one character, folded to lower case
LowerChar(c) ==
    IF \E i \in 1..Len(UpperLetters) : CharAt(UpperLetters, i) = c
    THEN CharAt(LowerLetters, CHOOSE i \in 1..Len(UpperLetters) :
                                 CharAt(UpperLetters, i) = c)
    ELSE c

RECURSIVE LikeFrom(_, _, _, _)
\* the PowerShell wildcard match of t from position i against pat from
\* position j: * any run of characters, ? one character, [...] one of the
\* listed characters, everything else itself, letters without regard to case
LikeFrom(t, i, pat, j) ==
    IF j > Len(pat) THEN i > Len(t)
    ELSE LET pc == CharAt(pat, j)
             closing == {k \in (j + 2)..Len(pat) : CharAt(pat, k) = "]"}
         IN  IF pc = "*"
             THEN \/ LikeFrom(t, i, pat, j + 1)
                  \/ i <= Len(t) /\ LikeFrom(t, i + 1, pat, j)
             ELSE IF pc = "?"
             THEN i <= Len(t) /\ LikeFrom(t, i + 1, pat, j + 1)
             ELSE IF pc = "[" /\ closing # {}
             THEN LET k == CHOOSE k \in closing : \A m \in closing : k <= m
                  IN  /\ i <= Len(t)
                      /\ \E m \in (j + 1)..(k - 1) :
                            LowerChar(CharAt(pat, m)) = LowerChar(CharAt(t, i))
                      /\ LikeFrom(t, i + 1, pat, k + 1)
             ELSE /\ i <= Len(t)
                  /\ LowerChar(CharAt(t, i)) = LowerChar(pc)
                  /\ LikeFrom(t, i + 1, pat, j + 1)

\* the -like operator
Like(t, pat) == LikeFrom(t, 1, pat, 1)

\* the test of the script: $currentPath -like "*$installDir*"
AlreadyConfigured(currentPath, dir) == Like(currentPath, "*" \o dir \o "*")

\* one run of the script
RunSetupEnv ==
    /\ runs < MaxRuns
    /\ runs' = runs + 1
    /\ userPath' = IF AlreadyConfigured(userPath, installDir) THEN userPath
                   ELSE userPath \o ";" \o installDir
    /\ UNCHANGED <<aggVars, guiVarsButEnv, installDir, pathAtStart>>

\* the directories the application can be installed in
InstallDirs == {"C:\\da", "C:\\Tools[1]\\da"}

\* the entries a user Path is made of before the first run
PathEntries ==
    {"C:\\Windows", "C:\\da", "C:\\DA", "C:\\da-old", "C:\\Tools1\\da",
     "C:\\Tools[1]\\da"}

\* the user Path may be unset (read as the empty string), or hold one or
\* two different entries
UserPaths ==
    {""} \cup PathEntries
         \cup {ab[1] \o ";" \o ab[2] :
                   ab \in {x \in PathEntries \X PathEntries : x[1] # x[2]}}

RECURSIVE LowerString(_)
LowerString(t) ==
    IF t = "" THEN ""
    ELSE LowerChar(CharAt(t, 1)) \o LowerString(SubSeq(t, 2, Len(t)))

RECURSIVE SplitFrom(_, _, _)
\* the pieces of t from position i on between semicolons, cur the piece
\* read so far
SplitFrom(t, i, cur) ==
    IF i > Len(t) THEN <<cur>>
    ELSE IF CharAt(t, i) = ";" THEN <<cur>> \o SplitFrom(t, i + 1, "")
    ELSE SplitFrom(t, i + 1, cur \o CharAt(t, i))

\* the entries of a Path value: its non-empty pieces
Entries(t) == SelectSeq(SplitFrom(t, 1, ""), LAMBDA e : e # "")

\* the positions of the entries of t that name the directory dir (Windows
\* compares paths without regard to case)
EntriesFor(t, dir) ==
    {i \in DOMAIN Entries(t) : LowerString(Entries(t)[i]) = LowerString(dir)}

\* a machine before the first run: the Path holds at most one entry for the
\* install directory
SetupInit ==
    /\ repos = FixtureRepos
    /\ window = FixtureWindow
    /\ storedConfig \in {c \in StoredConfigs : c.base_url = Null}
    /\ AggIdle
    /\ GuiInit
    /\ installDir \in InstallDirs
    /\ userPath \in {t \in UserPaths : Cardinality(EntriesFor(t, installDir)) <= 1}
    /\ pathAtStart = userPath
    /\ runs = 0

SetupNext == RunSetupEnv

SpecSetup == SetupInit /\ [][SetupNext]_vars

(***************************************************************************)
(* The aggregator as a fan-out / fan-in process.                          *)
(***************************************************************************)
Pending == [st |-> "pending", commits |-> <<>>]

RepoStates ==
    {{[hash |-> h, time |-> f[h]] : h \in {x \in Hashes : f[x] # 0}} :
        f \in [Hashes -> {0} \cup Times]}

Windows == [start : Times, end : 1..(MaxTime + 1)]

PathSeqs == SeqsUpTo(Paths, MaxPaths)

AggInit ==
    /\ repos \in {w \in [RepoIds -> RepoStates] : Cardinality(w["B"]) <= 1}
    /\ window \in Windows
    /\ aggPaths \in PathSeqs
    /\ aggDeep \in BOOLEAN
    /\ taskResult = [i \in DOMAIN aggPaths |-> Pending]
    /\ aggPc = "collect"
    /\ aggCommits = <<>>
    /\ aggWarnings = {}
    /\ storedConfig \in {c \in StoredConfigs : c.base_url = Null}
    /\ EnvIdle
    /\ GuiInit

\* one per-repository task completes (in any order)
TaskComplete(i) ==
    /\ aggPc = "collect"
    /\ taskResult[i].st = "pending"
    /\ taskResult' = [taskResult EXCEPT ![i] = RepoTask(repos, aggPaths[i], window, aggDeep)]
    /\ UNCHANGED <<repos, window, aggPaths, aggDeep, aggPc, aggCommits, aggWarnings, guiVars>>

\* mutant: the merge starts with the first result
AnyCollected == \E i \in DOMAIN taskResult : taskResult[i].st # "pending"

\* the synchronization barrier of the concurrency note
AllCollected == \A i \in DOMAIN taskResult : taskResult[i].st # "pending"

Merge ==
    /\ aggPc = "collect"
    /\ AllCollected
    /\ aggCommits' = MergeResults(taskResult)
    /\ aggWarnings' = WarningsOf(aggPaths, taskResult)
    /\ aggPc' = "done"
    /\ UNCHANGED <<repos, window, aggPaths, aggDeep, taskResult, guiVars>>

AggNext ==
    \/ \E i \in DOMAIN aggPaths : TaskComplete(i)
    \/ Merge

SpecAgg == AggInit /\ [][AggNext]_vars

(***************************************************************************)
(* Properties of the aggregator.                                           *)
(***************************************************************************)
AggDone == aggPc = "done"

\* the configured references that opened, with the identity they resolve to
OpenedIds == {OpenRepo(aggPaths[i]) : i \in DOMAIN aggPaths} \ {"none"}

HasCommit(s, r, h) == \E k \in DOMAIN s : s[k].repo = r /\ s[k].hash = h

\* C1: the sequence returned by scan is ordered by commit timestamp
\* descending, and adjacent commits with equal timestamps are ordered by hash.
C1_SortedByTimeThenHash ==
    AggDone =>
        \A i \in 1..(Len(aggCommits) - 1) :
            \/ aggCommits[i].time > aggCommits[i + 1].time
            \/ /\ aggCommits[i].time = aggCommits[i + 1].time
               /\ aggCommits[i].hash <= aggCommits[i + 1].hash

\* a result with a strict descent in time and a tie broken by hash
C1_Witness ==
    /\ AggDone
    /\ \E i, j \in 1..(Len(aggCommits) - 1) :
          /\ aggCommits[i].time > aggCommits[i + 1].time
          /\ aggCommits[j].time = aggCommits[j + 1].time
          /\ aggCommits[j].hash < aggCommits[j + 1].hash

\* the concatenation of the collected sequences after the sort of step 4
SortedConcat ==
    SortCommits(Flatten([i \in DOMAIN taskResult |-> taskResult[i].commits]))

FirstOccurrences(s) ==
    {i \in DOMAIN s :
        \A j \in 1..(i - 1) : ~(s[j].repo = s[i].repo /\ s[j].hash = s[i].hash)}

\* C2: no two commits of one aggregation result share (repository identity,
\* hash); when all references resolve to one repository every hash occurs at
\* most once; the copy kept is the first occurrence after the sort.
C2_UniqueByRepoAndHash ==
    AggDone =>
        /\ \A i, j \in DOMAIN aggCommits :
              i # j => ~(aggCommits[i].repo = aggCommits[j].repo
                         /\ aggCommits[i].hash = aggCommits[j].hash)
        /\ Cardinality(OpenedIds) <= 1 =>
              \A i, j \in DOMAIN aggCommits :
                  i # j => aggCommits[i].hash # aggCommits[j].hash
        /\ LET first == FirstOccurrences(SortedConcat)
           IN  /\ Len(aggCommits) = Cardinality(first)
               /\ \A i \in first :
                     aggCommits[Cardinality({j \in first : j <= i})] = SortedConcat[i]

\* the same repository configured under two spellings, the link first: the
\* surviving copy carries the name of the first reference
C2_Witness ==
    /\ AggDone
    /\ aggPaths = <<"a2", "a1">>
    /\ Len(SortedConcat) > Len(aggCommits)
    /\ \E k \in DOMAIN aggCommits : aggCommits[k].repo_name = "A-link"

\* C3: extraction uses the half-open window [start, end): a commit at the
\* window start is included, one at the window end is excluded, every
\* returned commit has start <= timestamp < end, and start >= end yields an
\* empty sequence.
C3_HalfOpenWindow ==
    AggDone =>
        /\ \A k \in DOMAIN aggCommits :
              window.start <= aggCommits[k].time /\ aggCommits[k].time < window.end
        /\ \A r \in OpenedIds : \A c \in repos[r] :
              /\ (c.time = window.start /\ window.start < window.end)
                    => HasCommit(aggCommits, r, c.hash)
              /\ c.time = window.end => ~HasCommit(aggCommits, r, c.hash)
        /\ window.start >= window.end => aggCommits = <<>>

\* one scanned repository has a commit exactly at the start and another
\* exactly at the end of a non-empty window
C3_Witness ==
    /\ AggDone
    /\ window.start < window.end
    /\ \E r \in OpenedIds : \E c, d \in repos[r] :
          /\ c.time = window.start
          /\ d.time = window.end
          /\ HasCommit(aggCommits, r, c.hash)

ScanReturns(k) == k \in DOMAIN scanCalls /\ scanCalls' = RemoveAt(scanCalls, k)

\* the step is the return of the call_ai invocation at position k
AiReturns(k) == k \in DOMAIN aiCalls /\ aiCalls' = RemoveAt(aiCalls, k)

FailingPaths(ps) == {ps[i] : i \in {j \in DOMAIN ps : OpenRepo(ps[j]) = "none"}}

InWindowCommitsOf(r) ==
    {c \in repos[r] : window.start <= c.time /\ c.time < window.end}

\* C4: a repository that cannot be opened never aborts the scan: the scan
\* still returns the in-window commits of every other configured repository,
\* and the failing path is reported as a warning in the metadata that
\* accompanies the result.
C4_BadRepoReportedAsWarning ==
    [][\A k \in DOMAIN scanCalls :
          (ScanReturns(k) /\ FailingPaths(scanCalls[k].paths) # {}) =>
              /\ \A i \in DOMAIN scanCalls[k].paths :
                    LET r == OpenRepo(scanCalls[k].paths[i])
                    IN  r # "none" =>
                          \A c \in InWindowCommitsOf(r) :
                              \E g \in DOMAIN gitLogs' : gitLogs'[g].hash = c.hash
                                      /\ gitLogs'[g].time = c.time
              /\ FailingPaths(scanCalls[k].paths) \subseteq DeliveredWarnings(gitLogs')
      ]_vars

\* C6: with the deep-analysis flag off every returned commit has an unset
\* diff field, and the flag the front end passes to scan is the current
\* deep_analysis value of the configuration.
C6_DeepFlagOffNoDiff ==
    [][/\ Len(scanCalls') > Len(scanCalls) =>
            scanCalls'[Len(scanCalls')].deepAnalysis = config.deep_analysis
       /\ \A k \in DOMAIN scanCalls :
            (ScanReturns(k) /\ ~scanCalls[k].deepAnalysis) =>
                \A g \in DOMAIN gitLogs' : gitLogs'[g].diff = NoDiff
      ]_vars

\* a sync issued with the flag off has delivered commits, none with a diff
C6_Witness ==
    /\ gitLogs # <<>>
    /\ \A g \in DOMAIN gitLogs : gitLogs[g].diff = NoDiff
    /\ ~config.deep_analysis
    /\ scanCalls = <<>>
    /\ config.git_paths # <<>>

\* C7: a non-2xx status yields ProviderError with that status, a transport
\* timeout yields Timeout, a malformed body yields ProtocolError; none of
\* them reaches the caller as a text result.
C7_TypedFailures ==
    [][\A k \in DOMAIN aiCalls :
          AiReturns(k) =>
              LET o == aiCalls[k].outcome[1]
              IN  /\ (o.kind = "response" /\ o.status = 401) =>
                        /\ lastAlert' = "AI Action Failed: ProviderError 401"
                        /\ reviewResult' = reviewResult
                  /\ o.kind = "timeout" =>
                        /\ lastAlert' = "AI Action Failed: Timeout"
                        /\ reviewResult' = reviewResult
                  /\ (o.kind = "response" /\ o.status = 200 /\ o.body = "malformed") =>
                        /\ lastAlert' = "AI Action Failed: ProtocolError"
                        /\ reviewResult' = reviewResult
      ]_vars

\* a review failed with HTTP 401 after an earlier one had succeeded: the
\* earlier text is still the result
C7_Witness ==
    /\ lastAlert = "AI Action Failed: ProviderError 401"
    /\ reviewResult # ""
    /\ aiCalls = <<>>

\* C8: every gateway call ends with one complete outcome after a single
\* attempt: a call whose transport never answers ends with Timeout, the
\* outcome of a call never changes, and no second request is issued.
C8_CallEndsOnce ==
    /\ [](\A k \in DOMAIN aiCalls : aiCalls[k].attempts = 1)
    /\ [][\A k \in DOMAIN aiCalls :
            (aiCalls[k].outcome # <<>> /\ k \in DOMAIN aiCalls') =>
                aiCalls'[k] = aiCalls[k]]_vars
    /\ (\E k \in DOMAIN aiCalls : aiCalls[k].outcome = <<>>)
          ~> (\A k \in DOMAIN aiCalls : aiCalls[k].outcome # <<>>)

\* a call has ended with Timeout
C8_Witness ==
    \E k \in DOMAIN aiCalls : aiCalls[k].outcome = <<TimedOut>>

\* the provider identifiers as spec.md enumerates them
SpecProviderIds == {"openai-compatible", "anthropic", "gemini"}

EndpointBase(call) ==
    IF call.req.base_url = Null
    THEN (CASE call.req.provider = "anthropic" -> "https://api.anthropic.com/v1"
            [] call.req.provider = "gemini" -> "https://generativelanguage.googleapis.com/v1beta"
            [] OTHER -> "https://api.openai.com/v1")
    ELSE call.req.base_url[1]

CallShape(call, openaiId) ==
    /\ call.req.provider = openaiId =>
          /\ call.http.url = EndpointBase(call) \o "/chat/completions"
          /\ call.http.auth = "Authorization: Bearer"
          /\ call.http.body = "chat-completions"
    /\ call.req.provider = "anthropic" =>
          /\ call.http.url = EndpointBase(call) \o "/messages"
          /\ call.http.auth = "x-api-key"
          /\ call.http.version_header
          /\ call.http.body = "messages"
    /\ call.req.provider = "gemini" =>
          /\ call.http.url = EndpointBase(call) \o "/models/" \o call.req.model
                                \o ":generateContent"
          /\ call.http.query_key
          /\ call.http.body = "generate-content"

RECURSIVE StartOf(_, _)
\* the offset of the i-th text in the texts joined by one-character separators
StartOf(texts, i) ==
    IF i = 1 THEN 0 ELSE StartOf(texts, i - 1) + Len(texts[i - 1]) + 1

JoinedLen(texts) ==
    IF texts = <<>> THEN 0 ELSE StartOf(texts, Len(texts)) + Len(texts[Len(texts)])

At(p, off, t) == SubSeq(p, off + 1, off + Len(t)) = t

PromptSectionsInOrder(p, mode, ls, gs, cfg) ==
    LET logTexts == [i \in DOMAIN ls |-> "- " \o ls[i].content]
        gitTexts == [i \in DOMAIN gs |-> CommitText(gs[i])]
        instr == BaseInstruction(mode, cfg)
        aLogsHdr == Len("\n        Context:")
        aLogs == aLogsHdr + Len("\n        Manual Logs:\n        ")
        aGitHdr == aLogs + JoinedLen(logTexts)
        aGit == aGitHdr + Len("\n        \n        Git Commits:\n        ")
        aInstrHdr == aGit + JoinedLen(gitTexts)
        aInstr == aInstrHdr + Len("\n        \n        System Instruction:\n        ")
        aRulesHdr == aInstr + Len(instr)
        aRules == aRulesHdr + Len("\n        \n        Additional User Rules:\n        ")
    IN  /\ At(p, 0, "\n        Context:")
        /\ At(p, aLogsHdr, "\n        Manual Logs:\n        ")
        /\ \A i \in DOMAIN ls : At(p, aLogs + StartOf(logTexts, i), logTexts[i])
        /\ At(p, aGitHdr, "\n        \n        Git Commits:\n        ")
        /\ \A i \in DOMAIN gs :
              At(p, aGit + StartOf(gitTexts, i),
                 "- [" \o gs[i].repo_name \o "] " \o gs[i].message)
        /\ At(p, aInstrHdr, "\n        \n        System Instruction:\n        ")
        /\ At(p, aInstr, instr)
        /\ At(p, aRulesHdr, "\n        \n        Additional User Rules:\n        ")
        /\ At(p, aRules, cfg.custom_rules)
        /\ Len(p) = aRules + Len(cfg.custom_rules) + Len("\n      ")

\* C10: the prompt has the fixed section order context header, manual-log
\* bullets, git-commit bullets, mode-specific instruction, user rules, and
\* logs and commits appear in the order of the input lists.
C10_PromptSectionOrder ==
    [][Len(aiCalls') > Len(aiCalls) =>
          PromptSectionsInOrder(aiCalls'[Len(aiCalls')].req.prompt, reviewMode',
                                logs, gitLogs, config)]_vars

\* a review was started over two logs and several commits
C10_Witness ==
    /\ aiCalls # <<>>
    /\ Len(logs) >= 2
    /\ Len(gitLogs) >= 2
    /\ aiCalls[1].req.prompt = generatePrompt(reviewMode, logs, gitLogs, config)

(***************************************************************************)
(* Properties of the prompt builder on empty inputs.                       *)
(***************************************************************************)
\* the offsets at which the text t occurs in p
Occurrences(p, t) == {off \in 0..(Len(p) - Len(t)) : At(p, off, t)}

\* the prompt handed to call_ai by the step that starts a review
StartedPrompt == aiCalls'[Len(aiCalls')].req.prompt

\* C11: with an empty log list and/or an empty commit list the prompt still
\* holds each of the four section headers (manual logs, git commits,
\* instruction, user rules) once, and the header of an empty section is
\* followed at once by the header of the next section: the body is empty,
\* the section is not left out.
C11_EmptySectionsKept ==
    [][Len(aiCalls') > Len(aiCalls) =>
          /\ \A h \in {"\n        Manual Logs:\n        ",
                       "\n        \n        Git Commits:\n        ",
                       "\n        \n        System Instruction:\n        ",
                       "\n        \n        Additional User Rules:\n        "} :
                Cardinality(Occurrences(StartedPrompt, h)) = 1
          /\ logs = <<>> =>
                At(StartedPrompt, 0,
                   "\n        Context:" \o "\n        Manual Logs:\n        "
                       \o "\n        \n        Git Commits:\n        ")
          /\ gitLogs = <<>> =>
                \E off \in Occurrences(StartedPrompt,
                                       "\n        \n        Git Commits:\n        ") :
                    At(StartedPrompt, off,
                       "\n        \n        Git Commits:\n        "
                           \o "\n        \n        System Instruction:\n        ")]_vars

\* a review in flight whose prompt was built from no log and no commit
C11_Witness ==
    /\ aiCalls # <<>>
    /\ At(aiCalls[1].req.prompt, 0,
          "\n        Context:" \o "\n        Manual Logs:\n        "
              \o "\n        \n        Git Commits:\n        "
              \o "\n        \n        System Instruction:\n        ")
    /\ logs = <<>>
    /\ gitLogs = <<>>

(***************************************************************************)
(* Properties of the instruction block and the rules block.                *)
(***************************************************************************)
\* the text of p between the end of the header h and the start of the header
\* after it (the end of p when there is none)
BlockAfter(p, h, after) ==
    LET from == CHOOSE off \in Occurrences(p, h) : TRUE
        to == IF after = "" THEN Len(p)
              ELSE CHOOSE off \in Occurrences(p, after) : TRUE
    IN  SubSeq(p, from + Len(h) + 1, to)

\* C12: in analysis mode the instruction block is the fixed directive,
\* whatever the report template; in export mode it is the order to follow
\* the format strictly, followed by the configured template character for
\* character; in both modes the rules block is the configured rules text
\* unchanged.
C12_InstructionAndRules ==
    [][Len(aiCalls') > Len(aiCalls) =>
          LET instr == BlockAfter(StartedPrompt,
                           "\n        \n        System Instruction:\n        ",
                           "\n        \n        Additional User Rules:\n        ")
              rules == BlockAfter(StartedPrompt,
                           "\n        \n        Additional User Rules:\n        ", "")
          IN  /\ reviewMode' = "analysis" =>
                    instr = "Provide a comprehensive summary, 3 improvements, and 1 key knowledge point. If code diffs are provided, use them to explain technical details."
              /\ reviewMode' = "export" =>
                    instr = "Strictly follow the format below:\n\nFormat Template:\n"
                                \o config.report_template
              /\ rules = config.custom_rules \o "\n      "]_vars

\* an analysis in flight while a report template and rules are configured
C12_Witness ==
    /\ aiCalls # <<>>
    /\ reviewMode = "analysis"
    /\ Len(config.report_template) > 0
    /\ Len(config.custom_rules) > 0
    /\ aiCalls[1].req.prompt = generatePrompt("analysis", logs, gitLogs, config)

(***************************************************************************)
(* Properties of the shared configuration.                                 *)
(***************************************************************************)
\* the page has its answer to get_config and no save_config is under way
ConfigQuiescent == "get_config" \notin pendingInit /\ saveCalls = <<>>

\* C13: the CLI and the GUI share one configuration, a change made in one
\* is reflected in the other: once the page has loaded its configuration and
\* holds no edit of its own that it has not saved, its configuration state
\* is the content of the store, also after the CLI has saved a change.
C13_SharedConfiguration ==
    (ConfigQuiescent /\ config = syncedConfig) => config = storedConfig

(***************************************************************************)
(* Properties of the diff summaries as the consumers see them.             *)
(***************************************************************************)
\* C14: a diff summary is cut once, inside the Diff Summarizer, to the
\* maximum plus the truncation marker, and every consumer sees that same
\* bounded value: what the commit list displays of a commit's diff is the
\* diff field the prompt is built from.
C14_OneBoundedValueForAll ==
    \A i \in DOMAIN gitLogs :
        Truthy(gitLogs[i].diff) =>
            /\ Len(gitLogs[i].diff[1]) <= MaxDiffChars + Len(TruncationMarker)
            /\ CommitList(gitLogs)[i].diff = gitLogs[i].diff

(***************************************************************************)
(* Properties of the commit entries of the prompt.                         *)
(***************************************************************************)
\* the entry the prompt is to hold for the commit g
ExpectedEntry(g) ==
    "- [" \o g.repo_name \o "] " \o g.message
        \o (IF g.diff # <<>> /\ g.diff[1] # ""
            THEN "\n  Code Diff Summary:\n~~~\n" \o g.diff[1] \o "\n~~~"
            ELSE "")

\* C15: in the prompt the bullet of a commit is followed by a diff block
\* exactly when the commit's diff is present, the block holds the diff text
\* unchanged, and a commit whose diff is unset or the empty string has its
\* bullet alone: the commit section is the expected entries, one per line.
C15_DiffBlockIffPresent ==
    [][Len(aiCalls') > Len(aiCalls) =>
          LET body == BlockAfter(StartedPrompt,
                          "\n        \n        Git Commits:\n        ",
                          "\n        \n        System Instruction:\n        ")
              entries == [i \in DOMAIN gitLogs |-> ExpectedEntry(gitLogs[i])]
          IN  /\ Len(body) = JoinedLen(entries)
              /\ \A i \in DOMAIN gitLogs :
                    At(body, StartOf(entries, i), entries[i])]_vars

\* a review in flight over commits of which one has a diff text and one the
\* empty diff
C15_Witness ==
    /\ aiCalls # <<>>
    /\ \E i, j \in DOMAIN gitLogs :
          /\ gitLogs[i].diff # <<>> /\ gitLogs[i].diff[1] # ""
          /\ gitLogs[j].diff = <<"">>
    /\ aiCalls[1].req.prompt = generatePrompt(reviewMode, logs, gitLogs, config)
    /\ Cardinality(Occurrences(aiCalls[1].req.prompt, "Code Diff Summary:")) = 2

(***************************************************************************)
(* Properties of the review workflow.                                      *)
(***************************************************************************)
\* the step starts a review: a call_ai invocation is issued
AiStarts == Len(aiCalls') > Len(aiCalls)

\* C16 as stated: a review that passes the key check has isAiLoading true
\* when call_ai is issued and false once call_ai has resolved or rejected,
\* and whenever no call_ai is in flight isAiLoading is false.
C16_Original ==
    [][/\ AiStarts => isAiLoading'
       /\ \A k \in DOMAIN aiCalls : AiReturns(k) => ~isAiLoading'
       /\ aiCalls' = <<>> => ~isAiLoading']_vars

\* C16 amended: a review that passes the key check has isAiLoading true when
\* call_ai is issued and for as long as it is in flight; the flag is false
\* once call_ai has resolved, and once the failure alert has been closed
\* after call_ai has rejected; whenever no call_ai is in flight and no alert
\* is open, isAiLoading is false.
C16_LoadingBracketsCall ==
    [][/\ AiStarts => isAiLoading'
       /\ aiCalls' # <<>> => isAiLoading'
       /\ \A k \in DOMAIN aiCalls :
             AiReturns(k) =>
                 \/ ~isAiLoading'
                 \/ /\ ~MapOutcome(aiCalls[k].outcome[1]).ok
                    /\ AiFailureAlertOpen'
       /\ (aiCalls' = <<>> /\ lastAlert' = "") => ~isAiLoading']_vars

\* a review was rejected and its failure alert has been closed: the flag is
\* down again
C16_Witness ==
    /\ aiCalls = <<>>
    /\ lastAlert = ""
    /\ ~isAiLoading
    /\ reviewMode = "export"
    /\ reviewResult = ""
    /\ activeTab = "review"

\* C17: at most one call_ai invocation is in flight: a review starts only
\* while isAiLoading is false and no other review is under way, and
\* reviewResult changes only when the one call in flight (the review started
\* last) resolves, to the text of its response.
C17_OneReviewAtATime ==
    [][/\ Len(aiCalls') <= 1
       /\ AiStarts => (~isAiLoading /\ aiCalls = <<>>)
       /\ isAiLoading => ~AiStarts
       /\ reviewResult' # reviewResult =>
             /\ Len(aiCalls) = 1
             /\ AiReturns(1)
             /\ aiCalls[1].outcome = <<[kind |-> "response", status |-> 200,
                                        body |-> "json"]>>
             /\ reviewResult' = "## Daily summary"
       /\ \A k \in DOMAIN aiCalls :
             (AiReturns(k) /\ MapOutcome(aiCalls[k].outcome[1]).ok) =>
                 reviewResult' = MapOutcome(aiCalls[k].outcome[1]).text]_vars

\* a second review is in flight, the result of the first is on display, and
\* the buttons are disabled
C17_Witness ==
    /\ Len(aiCalls) = 1
    /\ isAiLoading
    /\ reviewResult = "## Daily summary"
    /\ activeTab = "review"

\* C18: handleAiReview with an empty API key issues no call_ai invocation
\* and leaves reviewResult, reviewMode and isAiLoading as they are, it only
\* sends the user to the settings tab; and when call_ai fails, reviewResult
\* keeps the value it had.
C18_NoKeyNoCallFailureKeepsResult ==
    [][/\ (config.api_key = ""
           /\ lastAlert' = "Please configure API Key in Settings first.") =>
             /\ aiCalls' = aiCalls
             /\ reviewResult' = reviewResult
             /\ reviewMode' = reviewMode
             /\ isAiLoading' = isAiLoading
             /\ activeTab' = "settings"
       /\ config.api_key = "" => ~AiStarts
       /\ \A k \in DOMAIN aiCalls :
             (AiReturns(k) /\ aiCalls[k].outcome[1] # [kind |-> "response",
                                                       status |-> 200,
                                                       body |-> "json"]) =>
                 reviewResult' = reviewResult]_vars

\* Export Report was clicked without a key while the mode was analysis: the
\* page asks for the key on the settings tab, the mode is still analysis
C18_Witness ==
    /\ lastAlert = "Please configure API Key in Settings first."
    /\ activeTab = "settings"
    /\ config.api_key = ""
    /\ reviewMode = "analysis"
    /\ aiCalls = <<>>
    /\ ~isAiLoading

(***************************************************************************)
(* Properties of the repository list of the settings tab.                  *)
(***************************************************************************)
DistinctNonEmpty(s) ==
    /\ \A i, j \in DOMAIN s : i # j => s[i] # s[j]
    /\ \A i \in DOMAIN s : s[i] # ""

\* t is s without its k-th element, the others in their order
WithoutAt(s, t, k) ==
    /\ Len(t) = Len(s) - 1
    /\ \A i \in 1..(k - 1) : t[i] = s[i]
    /\ \A i \in k..Len(t) : t[i] = s[i + 1]

\* C19: from a configuration whose git_paths has no duplicate, git_paths
\* never holds a duplicate or an empty path; the list changes only by the
\* append of the typed path when it is non-empty and not in the list (the
\* input is then cleared), by the removal of exactly one path with the
\* others kept in order, or by the arrival of the stored configuration; and
\* adding a path that is in the list changes neither list nor input.
C19_GitPathsStayDistinct ==
    [][/\ DistinctNonEmpty(config.git_paths) => DistinctNonEmpty(config'.git_paths)
       /\ config'.git_paths # config.git_paths =>
             \/ /\ newGitPath # ""
                /\ \A i \in DOMAIN config.git_paths : config.git_paths[i] # newGitPath
                /\ config'.git_paths = config.git_paths \o <<newGitPath>>
                /\ newGitPath' = ""
             \/ /\ \E k \in DOMAIN config.git_paths :
                      WithoutAt(config.git_paths, config'.git_paths, k)
                /\ newGitPath' = newGitPath
             \/ /\ "get_config" \in pendingInit
                /\ config' = storedConfig
       /\ (addGitPath /\ \E i \in DOMAIN config.git_paths :
                             config.git_paths[i] = newGitPath) =>
             (config' = config /\ newGitPath' = newGitPath)]_vars

\* the list after a removal from its middle and an append, with a path that
\* is in the list typed into the input
C19_Witness ==
    /\ config.git_paths = <<"a1", "b", "a2">>
    /\ newGitPath = "b"
    /\ storedConfig.git_paths = <<"a1", "bad", "b">>

(***************************************************************************)
(* Properties of the log list.                                             *)
(***************************************************************************)
\* C20: for every interleaving of add-log and delete-log operations, each
\* followed by its own refresh, once no operation and no refresh is pending
\* the displayed logs are the log store's entries of today: no answer that
\* arrives late leaves an older snapshot on display.
C20_DisplayedLogsAreStoreLogs ==
    logCalls = <<>> => logs = logStore

(***************************************************************************)
(* Properties of the PATH setup script.                                    *)
(***************************************************************************)
\* C21: the setup script is effective and idempotent: after any number of
\* runs the install directory is an entry of the user Path, the Path holds
\* at most one entry for it, and the entries the Path had before the first
\* run are all there, unchanged and in their order.
C21_SetupEffectiveAndIdempotent ==
    runs > 0 =>
        /\ EntriesFor(userPath, installDir) # {}
        /\ Cardinality(EntriesFor(userPath, installDir)) <= 1
        /\ SubSeq(Entries(userPath), 1, Len(Entries(pathAtStart)))
              = Entries(pathAtStart)

====
